---- MODULE Spec2Model ----
(***************************************************************************)
(* Model of converter.py: the traditional -> simplified Chinese converter  *)
(* with automatic English -> Chinese translation of the <string> values of *)
(* an Android strings.xml.                                                  *)
(*                                                                         *)
(* Text is a sequence of tokens.  A token is one character, except for the *)
(* fixed literals "@string/", "@android:", "http" and "://", which are kept*)
(* as one token each.  "BSL" is the backslash character, "LF" a newline,   *)
(* "trad" a traditional-script character whose simplified form is "simp",  *)
(* and "zh" a simplified Chinese character produced by the translator.     *)
(*                                                                         *)
(* Three specifications share the module:                                  *)
(*   Spec      - replace(): the per-<string> callback (lines 107-121)      *)
(*   SpecXml   - convert_txt_or_xml() on one document (lines 105-141)      *)
(*   SpecBatch - process_single_file() / batch_process() (lines 162-188)   *)
(***************************************************************************)
EXTENDS Integers, Sequences, FiniteSets, TLC

VARIABLES
    AUTO_TRANSLATE_AVAILABLE, \* capability flag set at import time (49 / 52)
    PDF_SUPPORT,              \* capability flag set at import time (59 / 61)
    fpc,        \* replace(): "match" before the callback ran, "done" after
    raw,        \* replace(): match.group(2), the text between the tags
    outcome,    \* replace(): what the provider did on this call
    attempts,   \* replace(): the provider calls made, in order
    autoRet,    \* replace(): what auto_en_to_zh returned
    fragOut,    \* replace(): the value written between the tags
    xpc,        \* document run: "read" / "done" / "failed"
    fileKind,   \* document run: the input file name
    content,    \* document run: the text read from the input file
    converted,  \* document run: the text written to the output file
    ocsUsed,    \* document run: the provider's behaviour on each match, in order
    bpc,        \* driver: "main" / "loop" / "done" / "aborted"
    mode,       \* driver: "single" or "batch"
    tree,       \* driver: the files under the input directory (or the one input file)
    outArg,     \* driver: the output argument
    todo,       \* driver: files discovered and not yet processed
    diag,       \* driver: the diagnostics printed about each file, in order
    written     \* driver: the output files written, each with its input file

fragVars  == <<fpc, raw, outcome, attempts, autoRet, fragOut>>
xmlVars   == <<xpc, fileKind, content, converted, ocsUsed>>
batchVars == <<bpc, mode, tree, outArg, todo, diag, written>>
vars == <<AUTO_TRANSLATE_AVAILABLE, PDF_SUPPORT, fragVars, xmlVars, batchVars>>

-----------------------------------------------------------------------------
(* Bounds *)

\* a fragment is the concatenation of at most MaxPieces pieces
MaxPieces == 2

-----------------------------------------------------------------------------
(* Characters *)

Digits == {"0", "1"}
\* [a-zA-Z]: the single letters of the alphabet used here
Letters == {"H", "s", "d", "n", "t"}
\* str.strip() removes leading and trailing whitespace
Whitespace == {" ", "LF"}
\* tokens that stand for several characters, all of them letters or punctuation
LetterTokens == Letters \cup {"http", "@string/", "@android:"}


\* str.strip()
RECURSIVE lstrip(_)
lstrip(s) == IF s # <<>> /\ Head(s) \in Whitespace THEN lstrip(Tail(s)) ELSE s

RECURSIVE rstrip(_)
rstrip(s) ==
    IF s # <<>> /\ s[Len(s)] \in Whitespace
    THEN rstrip(SubSeq(s, 1, Len(s) - 1))
    ELSE s

strip(s) == rstrip(lstrip(s))

\* t2s.convert: every traditional character becomes its simplified form
t2s_convert(s) == [i \in DOMAIN s |-> IF s[i] = "trad" THEN "simp" ELSE s[i]]

-----------------------------------------------------------------------------
(* has_placeholder: the six patterns of lines 66-73, each re.search'ed *)

\* r'%[0-9]*[sd]'
PrintfAt(s, i) ==
    /\ s[i] = "%"
    /\ \E j \in (i + 1)..Len(s) :
          /\ s[j] \in {"s", "d"}
          /\ \A k \in (i + 1)..(j - 1) : s[k] \in Digits

\* r'\{[^}]+}'
BraceAt(s, i) ==
    /\ s[i] = "{"
    /\ \E j \in (i + 2)..Len(s) :
          /\ s[j] = "}"
          /\ \A k \in (i + 1)..(j - 1) : s[k] # "}"

\* r'@string/' and r'@android:'
ResourceAt(s, i) == s[i] \in {"@string/", "@android:"}

\* r'\\n|\\t|\\\\': a backslash followed by n, t or a backslash
EscapeAt(s, i) ==
    /\ s[i] = "BSL"
    /\ i + 1 <= Len(s)
    /\ s[i + 1] \in {"n", "t", "BSL"}

\* r'https?://'
UrlAt(s, i) ==
    /\ s[i] = "http"
    /\ \/ i + 1 <= Len(s) /\ s[i + 1] = "://"
       \/ i + 2 <= Len(s) /\ s[i + 1] = "s" /\ s[i + 2] = "://"

has_placeholder(text) ==
    \E i \in 1..Len(text) :
        \/ PrintfAt(text, i)
        \/ BraceAt(text, i)
        \/ ResourceAt(text, i)
        \/ EscapeAt(text, i)
        \/ UrlAt(text, i)

\* re.search(r'[a-zA-Z]', stripped)
HasLetter(s) == \E i \in 1..Len(s) : s[i] \in LetterTokens

-----------------------------------------------------------------------------
(* The translation provider: a black box that raises or returns text *)

ProviderOutcomes == {"raise", "same", "zh", "zhTrad"}

\* argostranslate.translate.translate(stripped, from_code, to_code), when it returns
translate(stripped, oc) ==
    CASE oc = "same"   -> stripped
      [] oc = "zh"     -> <<"zh">>
      [] oc = "zhTrad" -> <<"zh", "trad">>
      [] OTHER         -> stripped

-----------------------------------------------------------------------------
(* auto_en_to_zh, lines 76-103 *)

\* lines 81-86: the text handed on after strip() and removal of a leading '>'
Stripped(text) ==
    LET s == strip(text)
    IN  IF s # <<>> /\ Head(s) = ">" THEN Tail(s) ELSE s

\* lines 83-85: prefix is ">" before the test and ">" after it
Prefix(text) ==
    LET s == strip(text)
    IN  IF s # <<>> /\ Head(s) = ">" THEN <<">">> ELSE <<">">>

\* the guards of lines 78, 88, 92, 96: true when line 100 is reached
ProviderCalled(text, avail) ==
    /\ avail
    /\ Stripped(text) # <<>>
    /\ ~has_placeholder(Stripped(text))
    /\ HasLetter(Stripped(text))

\* ProviderAttempts with a second provider tried after a raise or an identical result
ProviderAttempts_fallback(text, avail, oc) ==
    IF ~ProviderCalled(text, avail) THEN <<>>
    ELSE IF oc \in {"raise", "same"}
    THEN <<[provider |-> 1, arg |-> Stripped(text)],
           [provider |-> 2, arg |-> Stripped(text)]>>
    ELSE <<[provider |-> 1, arg |-> Stripped(text)]>>

\* the provider calls auto_en_to_zh makes: the single call of line 100
ProviderAttempts(text, avail, oc) ==
    IF ProviderCalled(text, avail)
    THEN <<[provider |-> 1, arg |-> Stripped(text)]>>
    ELSE <<>>

\* auto_en_to_zh whose except branch returns the marker and the stripped text
auto_en_to_zh_except(text, avail, oc) ==
    IF ~ProviderCalled(text, avail) THEN text
    ELSE IF oc = "raise" THEN Prefix(text) \o Stripped(text)
    ELSE Prefix(text) \o translate(Stripped(text), oc)

auto_en_to_zh(text, avail, oc) ==
    IF ~ProviderCalled(text, avail) THEN text
    ELSE IF oc = "raise" THEN text
    ELSE Prefix(text) \o translate(Stripped(text), oc)

-----------------------------------------------------------------------------
(* translate_xml_strings.replace, lines 107-121: the new VALUE of one match *)

replace_value(group2, avail, oc) ==
    LET value      == strip(group2)
        translated == t2s_convert(auto_en_to_zh(value, avail, oc))
    IN  IF translated = value THEN t2s_convert(value) ELSE translated

-----------------------------------------------------------------------------
(* Inputs of the fragment specification *)

Pieces ==
    { <<c>> : c \in {"H", "s", "n", "1", "%", "$", "{", "}", "BSL", ">", " ",
                     "trad", "http", "://"} }
    \cup { <<"%", "1", "$", "s">>, <<"%", "1", "s">>, <<"{", "n", "}">>,
           <<"@string/">>, <<"@android:">>, <<"http", "s", "://">> }

RECURSIVE PieceSeqs(_)
PieceSeqs(n) ==
    IF n = 0 THEN { <<>> }
    ELSE LET shorter == PieceSeqs(n - 1)
         IN  shorter \cup { p \o s : p \in Pieces, s \in shorter }

Fragments == PieceSeqs(MaxPieces)

-----------------------------------------------------------------------------
(* Values the variables of the other specifications keep *)

FragIdle ==
    /\ fpc = "idle" /\ raw = <<>> /\ outcome = "none"
    /\ attempts = <<>> /\ autoRet = <<>> /\ fragOut = <<>>

XmlIdle ==
    /\ xpc = "idle" /\ fileKind = "none" /\ content = <<>> /\ converted = <<>>
    /\ ocsUsed = <<>>

BatchIdle ==
    /\ bpc = "idle" /\ mode = "none" /\ tree = {} /\ outArg = <<>>
    /\ todo = {} /\ diag = <<>> /\ written = {}

-----------------------------------------------------------------------------
(* Spec: one call of the replace callback on one matched <string> element *)

Init ==
    /\ AUTO_TRANSLATE_AVAILABLE \in BOOLEAN
    /\ PDF_SUPPORT = FALSE
    /\ fpc = "match"
    /\ raw \in Fragments
    /\ outcome = "none"
    /\ attempts = <<>>
    /\ autoRet = <<>>
    /\ fragOut = <<>>
    /\ XmlIdle
    /\ BatchIdle

\* lines 107-121; the provider's behaviour is an input when line 100 is reached
replace ==
    /\ fpc = "match"
    /\ \E oc \in ProviderOutcomes \cup {"none"} :
          /\ (oc = "none") <=> ~ProviderCalled(strip(raw), AUTO_TRANSLATE_AVAILABLE)
          /\ outcome' = oc
          /\ attempts' = ProviderAttempts(strip(raw), AUTO_TRANSLATE_AVAILABLE, oc)
          /\ autoRet' = auto_en_to_zh(strip(raw), AUTO_TRANSLATE_AVAILABLE, oc)
          /\ fragOut' = replace_value(raw, AUTO_TRANSLATE_AVAILABLE, oc)
    /\ fpc' = "done"
    /\ UNCHANGED <<AUTO_TRANSLATE_AVAILABLE, PDF_SUPPORT, raw, xmlVars, batchVars>>

Next == replace

Spec == Init /\ [][Next]_vars

-----------------------------------------------------------------------------
(* Claims about the replace callback (checked under Spec) *)

\* '%' digits '$' type letter: the positional form of a printf specifier
PositionalAt(s, i) ==
    /\ s[i] = "%"
    /\ \E j \in (i + 2)..(Len(s) - 1) :
          /\ s[j] = "$"
          /\ s[j + 1] \in {"s", "d"}
          /\ \A k \in (i + 1)..(j - 1) : s[k] \in Digits

\* a fragment with a protected pattern anywhere in it, the positional form included
IsProtectedFragment(s) ==
    \/ has_placeholder(s)
    \/ \E i \in 1..Len(s) : PositionalAt(s, i)

StartsWithMarker(s) == s # <<>> /\ Head(s) = ">"

\* C1: for a fragment that contains a protected pattern (positional printf form
\* included) the provider is never invoked and the fragment comes out as its
\* script-converted self, every protected token unchanged.
C1_ProtectedNeverTranslated ==
    (fpc = "done" /\ IsProtectedFragment(strip(raw)))
        => /\ attempts = <<>>
           /\ fragOut = t2s_convert(strip(raw))

\* C2: when the provider is unavailable or its call raises, the translate step
\* returns the original text unchanged and script conversion still runs on it.
C2_TranslationNeverFails ==
    (fpc = "done" /\ (~AUTO_TRANSLATE_AVAILABLE \/ outcome = "raise"))
        => /\ autoRet = strip(raw)
           /\ fragOut = t2s_convert(strip(raw))
           /\ (raw = <<"H">> /\ ~AUTO_TRANSLATE_AVAILABLE => fragOut = <<"H">>)

\* C2 witness: the provider was called on text holding a traditional character,
\* raised, and the text came out script-converted.
C2_Witness ==
    /\ fpc = "done"
    /\ outcome = "raise"
    /\ attempts # <<>>
    /\ raw = <<"H", "trad">>
    /\ fragOut = <<"H", "simp">>

\* C5 (as stated): provider 2 is attempted if and only if provider 1 raised or
\* returned output identical to its input.
C5_SecondProviderIffFirstFailed ==
    fpc = "done" =>
        ((\E i \in 1..Len(attempts) : attempts[i].provider = 2)
            <=> (/\ \E i \in 1..Len(attempts) : attempts[i].provider = 1
                 /\ outcome \in {"raise", "same"}))

\* C5 (amended): provider 1 is the only provider; it is attempted at most once
\* per request, nothing is attempted after it raised or returned its input, and
\* a raise yields the original text.
C5_SingleProvider ==
    fpc = "done" =>
        /\ Len(attempts) <= 1
        /\ \A i \in 1..Len(attempts) : attempts[i].provider = 1
        /\ (outcome = "raise" => autoRet = strip(raw))

\* C5 witness: provider 1 was attempted and returned its input unchanged.
C5_Witness ==
    /\ fpc = "done"
    /\ outcome = "same"
    /\ Len(attempts) = 1
    /\ attempts[1].provider = 1

\* C9: when the provider translates a value, the result starts with the '>'
\* marker if and only if the stripped input started with it.
C9_MarkerOnlyWhenPresent ==
    (fpc = "done" /\ outcome \in {"zh", "zhTrad"})
        => (StartsWithMarker(autoRet) <=> StartsWithMarker(strip(raw)))

-----------------------------------------------------------------------------
(* translate_xml_strings, lines 105-125.  Markup tokens: "<string" and     *)
(* "</string>" in either letter case, "name=Q" for name=" (Q is the double *)
(* quote), ">" and whitespace.                                             *)

\* a document is the concatenation of at most MaxSegs segments
MaxSegs == 2

\* re.IGNORECASE on the literal parts of the pattern
Lower(tok) ==
    CASE tok = "<STRING"   -> "<string"
      [] tok = "NAME=Q"    -> "name=Q"
      [] tok = "</STRING>" -> "</string>"
      [] tok = ".XML"      -> ".xml"
      [] tok = ".TXT"      -> ".txt"
      [] tok = "Strings"   -> "strings"
      [] OTHER             -> tok

\* the number of consecutive tokens from position p on that are in set S
RECURSIVE RunLen(_, _, _)
RunLen(doc, p, S) ==
    IF p <= Len(doc) /\ doc[p] \in S THEN 1 + RunLen(doc, p + 1, S) ELSE 0

\* the number of consecutive tokens from position p on that are not tok
RECURSIVE RunUntil(_, _, _)
RunUntil(doc, p, tok) ==
    IF p <= Len(doc) /\ Lower(doc[p]) # tok THEN 1 + RunUntil(doc, p + 1, tok) ELSE 0

NoMatch ==
    [ok |-> FALSE, end |-> 0, name |-> <<>>, value |-> <<>>, open |-> <<>>, close |-> ""]

\* line 124: r'<string\s+name="([^"]+)"\s*>(.*?)</string>' matched at position i
\* with re.DOTALL | re.IGNORECASE
MatchAt(doc, i) ==
    IF Lower(doc[i]) # "<string" THEN NoMatch
    ELSE
    LET w1 == RunLen(doc, i + 1, Whitespace)            \* \s+
        p2 == i + 1 + w1                                \* name="
        n  == RunUntil(doc, p2 + 1, "Q")                \* ([^"]+)
        p3 == p2 + 1 + n                                \* "
        w2 == RunLen(doc, p3 + 1, Whitespace)           \* \s*
        p4 == p3 + 1 + w2                               \* >
        v  == RunUntil(doc, p4 + 1, "</string>")        \* (.*?)
        p5 == p4 + 1 + v                                \* </string>
    IN  IF /\ w1 >= 1
           /\ p2 <= Len(doc) /\ Lower(doc[p2]) = "name=Q"
           /\ n >= 1
           /\ p3 <= Len(doc) /\ doc[p3] = "Q"
           /\ p4 <= Len(doc) /\ doc[p4] = ">"
           /\ p5 <= Len(doc)
        THEN [ok |-> TRUE, end |-> p5,
              name  |-> SubSeq(doc, p2 + 1, p3 - 1),
              value |-> SubSeq(doc, p4 + 1, p5 - 1),
              open  |-> SubSeq(doc, i, p4),
              close |-> doc[p5]]
        ELSE NoMatch

\* line 121: f'<string name="{name}">{translated}</string>'
Replacement(name, translated) ==
    <<"<string", " ", "name=Q">> \o name \o <<"Q", ">">> \o translated \o <<"</string>">>

\* line 125: re.sub over the document from position i on; ocs holds the
\* provider's behaviour for the matches still to come
RECURSIVE Sub(_, _, _, _)
Sub(doc, i, avail, ocs) ==
    IF i > Len(doc) THEN <<>>
    ELSE LET m == MatchAt(doc, i)
         IN  IF m.ok
             THEN Replacement(m.name, replace_value(m.value, avail, Head(ocs)))
                      \o Sub(doc, m.end + 1, avail, Tail(ocs))
             ELSE <<doc[i]>> \o Sub(doc, i + 1, avail, ocs)

\* translate_xml_strings followed by a script conversion of the whole document
translate_xml_strings_whole(doc, avail, ocs) == t2s_convert(Sub(doc, 1, avail, ocs))

translate_xml_strings(doc, avail, ocs) == Sub(doc, 1, avail, ocs)

\* re.finditer of the same pattern: the matches of a document, in order
RECURSIVE Matches(_, _)
Matches(doc, i) ==
    IF i > Len(doc) THEN <<>>
    ELSE LET m == MatchAt(doc, i)
         IN  IF m.ok
             THEN <<m>>
                      \o Matches(doc, m.end + 1)
             ELSE Matches(doc, i + 1)

\* the characters of a document that lie outside every match, in order
RECURSIVE Outside(_, _)
Outside(doc, i) ==
    IF i > Len(doc) THEN <<>>
    ELSE LET m == MatchAt(doc, i)
         IN  IF m.ok THEN Outside(doc, m.end + 1)
             ELSE <<doc[i]>> \o Outside(doc, i + 1)

-----------------------------------------------------------------------------
(* convert_txt_or_xml, lines 127-141 *)

\* input file names: [stem, suffix]
XmlFileNames ==
    { [stem |-> "strings", suffix |-> ".xml"],
      [stem |-> "Strings", suffix |-> ".XML"],
      [stem |-> "notes",   suffix |-> ".xml"],
      [stem |-> "strings", suffix |-> ".txt"] }

\* line 131: suffix.lower() == ".xml" and "strings" in name.lower()
IsStringsXml(f) == Lower(f.suffix) = ".xml" /\ Lower(f.stem) = "strings"

\* lines 131-135: the text written for the text read
ConvertedText(f, doc, avail, ocs) ==
    IF IsStringsXml(f) THEN translate_xml_strings(doc, avail, ocs)
    ELSE t2s_convert(doc)

-----------------------------------------------------------------------------
(* Inputs of the document specification *)

\* <string name="N">VALUE</string> in two spellings of the tag syntax
Elem(syntax, nm, val) ==
    IF syntax = "canonical"
    THEN <<"<string", " ", "name=Q">> \o nm \o <<"Q", ">">> \o val \o <<"</string>">>
    ELSE <<"<STRING", "LF", " ", "NAME=Q">> \o nm \o <<"Q", " ", ">">> \o val
             \o <<"</STRING>">>

XmlValues == { <<"H">>, <<"%", "s", " ", "H">>, <<"trad">>, <<" ", "H", " ">> }

DocPieces ==
    { Elem("canonical", <<nm>>, val) : nm \in {"a", "b"}, val \in XmlValues }
    \cup { Elem("loose", <<"b">>, val) : val \in { <<"H">>, <<"trad">> } }
    \cup { <<"trad">>, <<"LF">>,
           <<"<string", " ", "translatable", " ", "name=Q", "c", "Q", ">",
             "trad", "</string>">> }

RECURSIVE DocSeqs(_)
DocSeqs(n) ==
    IF n = 0 THEN { <<>> }
    ELSE LET shorter == DocSeqs(n - 1)
         IN  shorter \cup { p \o s : p \in DocPieces, s \in shorter }

Documents == DocSeqs(MaxSegs)

\* the provider's behaviour at each match of one run; it is "none" where the
\* provider cannot be reached at all
OutcomeSeqs(avail, f, doc) ==
    LET n == Len(Matches(doc, 1))
    IN  IF avail /\ IsStringsXml(f)
        THEN [1..n -> ProviderOutcomes]
        ELSE { [k \in 1..n |-> "none"] }

-----------------------------------------------------------------------------
(* SpecXml: convert_txt_or_xml on one document *)

InitXml ==
    /\ AUTO_TRANSLATE_AVAILABLE \in BOOLEAN
    /\ PDF_SUPPORT = FALSE
    /\ xpc = "read"
    /\ fileKind \in XmlFileNames
    /\ content \in Documents
    /\ converted = <<>>
    /\ ocsUsed = <<>>
    /\ FragIdle
    /\ BatchIdle

\* lines 128-139: read, convert, write
ConvertOk ==
    /\ xpc = "read"
    /\ \E ocs \in OutcomeSeqs(AUTO_TRANSLATE_AVAILABLE, fileKind, content) :
          /\ converted' = ConvertedText(fileKind, content, AUTO_TRANSLATE_AVAILABLE, ocs)
          /\ ocsUsed' = ocs
    /\ xpc' = "done"
    /\ UNCHANGED <<AUTO_TRANSLATE_AVAILABLE, PDF_SUPPORT, fileKind, content,
                   fragVars, batchVars>>

\* lines 140-141: read_text, mkdir or write_text raised; nothing is written
ConvertFailed ==
    /\ xpc = "read"
    /\ xpc' = "failed"
    /\ UNCHANGED <<AUTO_TRANSLATE_AVAILABLE, PDF_SUPPORT, fileKind, content,
                   converted, ocsUsed, fragVars, batchVars>>

NextXml == ConvertOk \/ ConvertFailed

SpecXml == InitXml /\ [][NextXml]_vars

-----------------------------------------------------------------------------
(* Claims about a document run (checked under SpecXml) *)

StringsRunDone == xpc = "done" /\ IsStringsXml(fileKind)

\* C3: the output holds the same name attributes in the same order; a protected
\* VALUE stays untranslated; an unprotected VALUE that contains a letter becomes
\* exactly the script-converted provider translation of VALUE.
C3_ValuesTranslatedExactly ==
    StringsRunDone =>
        LET mi == Matches(content, 1)
            mo == Matches(converted, 1)
        IN  /\ Len(mo) = Len(mi)
            /\ \A k \in 1..Len(mi) :
                  LET value == strip(mi[k].value)
                  IN  /\ mo[k].name = mi[k].name
                      /\ IsProtectedFragment(value)
                            => mo[k].value = t2s_convert(value)
                      /\ (/\ ~IsProtectedFragment(value)
                          /\ HasLetter(value)
                          /\ AUTO_TRANSLATE_AVAILABLE
                          /\ ocsUsed[k] \in {"same", "zh", "zhTrad"})
                            => mo[k].value = t2s_convert(translate(value, ocsUsed[k]))

\* C4 (as stated): every character outside the matched elements is reproduced
\* unchanged and in order, and each matched element keeps its name attribute and
\* its tag syntax (letter case, whitespace inside the opening tag) verbatim.
C4_TagSyntaxVerbatim ==
    StringsRunDone =>
        LET mi == Matches(content, 1)
            mo == Matches(converted, 1)
        IN  /\ Outside(converted, 1) = Outside(content, 1)
            /\ Len(mo) = Len(mi)
            /\ \A k \in 1..Len(mi) :
                  /\ mo[k].name = mi[k].name
                  /\ mo[k].open = mi[k].open
                  /\ mo[k].close = mi[k].close

\* C4 (amended): every character outside the matched elements is reproduced
\* unchanged and in order, each matched element keeps its name attribute
\* verbatim, and its tag syntax is rewritten to <string name="N">...</string>.
C4_OutsideAndNamesVerbatim ==
    StringsRunDone =>
        LET mi == Matches(content, 1)
            mo == Matches(converted, 1)
        IN  /\ Outside(converted, 1) = Outside(content, 1)
            /\ Len(mo) = Len(mi)
            /\ \A k \in 1..Len(mi) :
                  /\ mo[k].name = mi[k].name
                  /\ mo[k].open = <<"<string", " ", "name=Q">> \o mi[k].name \o <<"Q", ">">>
                  /\ mo[k].close = "</string>"

\* C4 witness: a document with a traditional character outside the elements and
\* an element written with upper-case tags and extra whitespace was converted.
C4_Witness ==
    /\ StringsRunDone
    /\ Len(content) > 0 /\ content[1] = "trad"
    /\ Len(Matches(content, 1)) = 1
    /\ Matches(content, 1)[1].close = "</STRING>"
    /\ Matches(converted, 1)[1].close = "</string>"
    /\ converted[1] = "trad"

\* C8: after a run the output holds no traditional-script character, wherever
\* in the document it stood.
C8_NoTraditionalLeft ==
    xpc = "done" => \A i \in 1..Len(converted) : converted[i] # "trad"

-----------------------------------------------------------------------------
(* process_single_file and batch_process, lines 162-188.  An input file is *)
(* [dir, stem, suffix]; an output path is [dir, stem, suffix] with dir and *)
(* stem sequences of name parts.                                           *)

\* at most MaxFiles files lie under the input directory
MaxFiles == 3

\* line 171
TextSuffixes == {".txt", ".xml", ".json", ".html", ".md"}
\* line 180
supported == {".txt", ".xml", ".json", ".html", ".md", ".pdf"}

\* line 163: '.' in Path(output_arg).name; the argument is its name parts
HasDot(arg) == Len(arg) > 1

\* lines 163-169
output_path(f, arg) ==
    IF HasDot(arg)
    THEN [dir |-> <<>>, stem |-> <<arg[1]>>, suffix |-> arg[2]]
    ELSE [dir |-> arg, stem |-> <<f.stem, "_translated">>, suffix |-> ".txt"]

\* Path.with_suffix
with_suffix(p, sfx) == [p EXCEPT !.suffix = sfx]

\* lines 127-141: io is what the file system did ("ok", "readFail", "writeFail")
convert_txt_or_xml_notry(f, out, io) ==
    IF io = "ok"
    THEN [kind |-> "Success", wrote |-> {[src |-> f, path |-> out]}, raised |-> FALSE]
    ELSE [kind |-> "none", wrote |-> {}, raised |-> TRUE]

convert_txt_or_xml(f, out, io) ==
    IF io = "ok"
    THEN [kind |-> "Success", wrote |-> {[src |-> f, path |-> out]}, raised |-> FALSE]
    ELSE [kind |-> "Failed", wrote |-> {}, raised |-> FALSE]

\* lines 143-159
convert_pdf(f, out, pdf, io) ==
    IF ~pdf THEN [kind |-> "SkipPDF", wrote |-> {}, raised |-> FALSE]
    ELSE IF io = "ok"
    THEN [kind |-> "SuccessPDF", wrote |-> {[src |-> f, path |-> out]}, raised |-> FALSE]
    ELSE [kind |-> "FailedPDF", wrote |-> {}, raised |-> FALSE]

\* lines 162-176
process_single_file(f, arg, pdf, io) ==
    IF Lower(f.suffix) \in TextSuffixes
    THEN convert_txt_or_xml(f, output_path(f, arg), io)
    ELSE IF Lower(f.suffix) = ".pdf"
    THEN convert_pdf(f, with_suffix(output_path(f, arg), ".txt"), pdf, io)
    ELSE [kind |-> "SkipType", wrote |-> {}, raised |-> FALSE]

\* line 181: the files batch_process discovers
Discovered(files) == { f \in files : Lower(f.suffix) \in supported }

\* the path process_single_file writes for f
WritePath(f, arg) ==
    IF Lower(f.suffix) = ".pdf"
    THEN with_suffix(output_path(f, arg), ".txt")
    ELSE output_path(f, arg)

\* what the file system can do when f is converted: in a batch run the output
\* directory exists (line 179), so writing to that very path cannot succeed
IoOutcomes(f, arg, m) ==
    IF m = "batch" /\ HasDot(arg) /\ WritePath(f, arg) = output_path(f, arg)
    THEN {"readFail", "writeFail"}
    ELSE {"ok", "readFail", "writeFail"}

\* the diagnostics that are about no single file
NoFile == [dir |-> "-", stem |-> "-", suffix |-> "-"]

-----------------------------------------------------------------------------
(* Inputs of the driver specification *)

FileUniverse ==
    { [dir |-> d, stem |-> "x", suffix |-> e] :
          d \in {".", "sub"}, e \in {".txt", ".xml", ".pdf", ".bin"} }
    \cup { [dir |-> ".", stem |-> "y", suffix |-> ".txt"],
           [dir |-> "sub", stem |-> "y", suffix |-> ".TXT"] }

Trees == { t \in SUBSET FileUniverse : Cardinality(t) <= MaxFiles }

OutArgs == { <<"output">>, <<"res", ".xml">> }

-----------------------------------------------------------------------------
(* SpecBatch: main() on one input path *)

InitBatch ==
    /\ AUTO_TRANSLATE_AVAILABLE = FALSE
    /\ PDF_SUPPORT \in BOOLEAN
    /\ bpc = "main"
    /\ mode \in {"single", "batch"}
    /\ tree \in Trees
    /\ mode = "single" => Cardinality(tree) = 1
    /\ outArg \in OutArgs
    /\ todo = {}
    /\ diag = [f \in tree \cup {NoFile} |-> <<>>]
    /\ written = {}
    /\ FragIdle
    /\ XmlIdle

\* one call of process_single_file and its effect on the output and the log
Process(f) ==
    \E io \in IoOutcomes(f, outArg, mode) :
        LET r == process_single_file(f, outArg, PDF_SUPPORT, io)
        IN  /\ written' = written \cup r.wrote
            /\ diag' = IF r.raised THEN diag
                       ELSE [diag EXCEPT ![f] = Append(@, r.kind)]
            /\ bpc' = IF r.raised THEN "aborted"
                      ELSE IF mode = "single" THEN "done" ELSE "loop"

\* lines 200-201
MainSingle ==
    /\ bpc = "main" /\ mode = "single"
    /\ \E f \in tree : Process(f)
    /\ UNCHANGED <<AUTO_TRANSLATE_AVAILABLE, PDF_SUPPORT, mode, tree, outArg, todo,
                   fragVars, xmlVars>>

\* lines 179-184: no supported file under the input directory
BatchStartEmpty ==
    /\ bpc = "main" /\ mode = "batch"
    /\ Discovered(tree) = {}
    /\ diag' = [diag EXCEPT ![NoFile] = Append(@, "Warning")]
    /\ bpc' = "done"
    /\ UNCHANGED <<AUTO_TRANSLATE_AVAILABLE, PDF_SUPPORT, mode, tree, outArg, todo,
                   written, fragVars, xmlVars>>

\* lines 179-185
BatchStart ==
    /\ bpc = "main" /\ mode = "batch"
    /\ Discovered(tree) # {}
    /\ todo' = Discovered(tree)
    /\ diag' = [diag EXCEPT ![NoFile] = Append(@, "Found")]
    /\ bpc' = "loop"
    /\ UNCHANGED <<AUTO_TRANSLATE_AVAILABLE, PDF_SUPPORT, mode, tree, outArg,
                   written, fragVars, xmlVars>>

\* lines 186-187: one iteration of the loop, in the order rglob yields
ProcessNext ==
    /\ bpc = "loop"
    /\ \E f \in todo :
          /\ Process(f)
          /\ todo' = todo \ {f}
    /\ UNCHANGED <<AUTO_TRANSLATE_AVAILABLE, PDF_SUPPORT, mode, tree, outArg,
                   fragVars, xmlVars>>

\* line 188
BatchFinish ==
    /\ bpc = "loop" /\ todo = {}
    /\ diag' = [diag EXCEPT ![NoFile] = Append(@, "AllDone")]
    /\ bpc' = "done"
    /\ UNCHANGED <<AUTO_TRANSLATE_AVAILABLE, PDF_SUPPORT, mode, tree, outArg, todo,
                   written, fragVars, xmlVars>>

NextBatch ==
    \/ MainSingle
    \/ BatchStartEmpty
    \/ BatchStart
    \/ ProcessNext
    \/ BatchFinish

SpecBatch == InitBatch /\ [][NextBatch]_vars

-----------------------------------------------------------------------------
(* Claims about the driver (checked under SpecBatch) *)

\* the kinds of outcome process_single_file reports for a file of this suffix
OutcomeKinds(f, pdf) ==
    IF Lower(f.suffix) \in TextSuffixes THEN {"Success", "Failed"}
    ELSE IF Lower(f.suffix) # ".pdf" THEN {"SkipType"}
    ELSE IF pdf THEN {"SuccessPDF", "FailedPDF"}
    ELSE {"SkipPDF"}

SimplifiedPath(f, arg) ==
    IF HasDot(arg)
    THEN [dir |-> <<>>, stem |-> <<arg[1]>>, suffix |-> arg[2]]
    ELSE [dir |-> arg, stem |-> <<f.stem, "_simplified">>, suffix |-> f.suffix]

\* C7: a single-file run writes exactly the output argument when its last
\* component has an extension, and <dir>/<stem>_simplified.<ext> otherwise.
C7_OutputPathNaming ==
    (mode = "single" /\ bpc = "done") =>
        \A w \in written : w.path = SimplifiedPath(w.src, outArg)

\* C10: in a batch run two distinct input files are never written to the same
\* output path.
C10_DistinctOutputs ==
    mode = "batch" =>
        \A w1, w2 \in written : w1.src # w2.src => w1.path # w2.path

====
